---- MODULE Spec2Model ----
(***************************************************************************)
(* Mining session lifecycle and reward settlement of the Cyber Miner game. *)
(* The model follows the useMining hook (src/src/lib/combo.ts), the wallet *)
(* hook (src/src/hooks/use-leaderboard.tsx), the cartridge hook            *)
(* (src/src/hooks/use-cartridge.tsx), the wallet utilities                 *)
(* (src/src/lib/minting.ts) and the rarity table (src/src/lib/rarity.ts).  *)
(*                                                                         *)
(* React state is one variable per useState/useRef.  A handler invoked by  *)
(* the user reads the state of the latest render; the continuation of an   *)
(* async handler and a timer callback read the values their closure        *)
(* captured, which the model keeps in the claim process and in the timer.  *)
(* The effects that a state change triggers run in the same step as the    *)
(* change.  lastStep is a history variable: the notification of the last   *)
(* step when that step started, completed or cancelled a session or began  *)
(* or ended a claim attempt, and "-" after any other step.  The other      *)
(* history variables number the sessions: sessionCount counts the sessions *)
(* started, rewardSession is the session whose reward pendingReward holds, *)
(* credited counts the credits of each session (up to 2), cancelled marks  *)
(* the sessions that a cancel discarded and finalRewardOf keeps the reward *)
(* that startMining computed for each session.                             *)
(***************************************************************************)
EXTENDS Integers, Sequences, FiniteSets, TLC

(***************************************************************************)
(* Bounds of the model.                                                    *)
(***************************************************************************)
MaxSessions == 2
MaxTx == 2
MaxCredits == 2

(***************************************************************************)
(* Program constants.  Amounts of APE are counted in units of 10^14 wei    *)
(* (0.0001 APE), the gas buffer of the balance check.                      *)
(***************************************************************************)
CLAIM_FEE_WEI == 100
GAS_BUFFER_WEI == 1
maxAttempts == 60
fiveMinutes == 300000
MinDuration == 5
MaxDuration == 60
SeasonPointsPerData == 10
MaxMultiplier == 30
BonusRange == 3

None == [none |-> TRUE]

APECHAIN_CHAIN_ID == "0x8173"
ChainIds == {"0x8173", "0x1"}
Accounts == {"0xA1"}
\* The accounts of the wallet: the one that connects and one the user can switch to.
WalletAccounts == {"0xA1", "0xB2"}

(***************************************************************************)
(* The instants at which the model observes the clock (milliseconds).      *)
(***************************************************************************)
TimePoints == {0, 2500, 5000, 305000, 305001}

(***************************************************************************)
(* The draws of Math.random() the model enumerates.                        *)
(***************************************************************************)
\* Math.random() is k / RandomScale for an integer k in 0 .. RandomScale - 1, so that
\* Math.random() * 100 is k hundredths of a percent.
RandomScale == 100 * 100
RandomDraws == 0..(RandomScale - 1)

\* Math.floor(Math.random() * (60 - 5 + 1)) + 5
drawDuration(random) ==
    (random * (MaxDuration - MinDuration + 1)) \div RandomScale + MinDuration

\* Math.floor(Math.random() * 3)
drawBonus(random) == (random * BonusRange) \div RandomScale

\* <<duration, bonus, rarity draw>> of one startMining
StartDraws == {<<drawDuration(0), drawBonus(0), 0>>,
               <<drawDuration(RandomScale - 1), drawBonus(RandomScale - 1), 9600>>}
HashRateDraws == {50}
BalanceDraws == {0, CLAIM_FEE_WEI, CLAIM_FEE_WEI + GAS_BUFFER_WEI}
ReceiptStatuses == {"0x1", "0x0", "absent"}
ErrorKinds == {"User rejected the request", "RPC failure"}

VARIABLES
    isConnected, address, chainId, loadedCartridge,
    isMining, isReadyToClaim, isClaiming,
    pendingReward, pendingRarity, miningProgress, miningDuration,
    stats, startTimeRef,
    miningTimeoutRef, hashRateIntervalRef, progressIntervalRef,
    pendingStore, statsStore, failing,
    claims, txStatus, now,
    lastStep, sessionCount, rewardSession, credited, cancelled, finalRewardOf,
    call, combo, challengeState, challengeStore, achievementState

walletVars == <<isConnected, address, chainId, loadedCartridge>>
sessionVars == <<isMining, isReadyToClaim, isClaiming, pendingReward, pendingRarity,
                 miningProgress, miningDuration, stats, startTimeRef>>
timerVars == <<miningTimeoutRef, hashRateIntervalRef, progressIntervalRef>>
storageVars == <<pendingStore, statsStore, failing>>
ghostVars == <<sessionCount, rewardSession, credited, cancelled, finalRewardOf>>
\* The state of the libraries that useMining does not call: the last call of a pure
\* function, the combo state, the daily challenges in memory and in storage and the
\* achievements.
libVars == <<call, combo, challengeState, challengeStore, achievementState>>
appVars == <<walletVars, sessionVars, timerVars, storageVars, claims, txStatus,
             lastStep, ghostVars>>
vars == <<walletVars, sessionVars, timerVars, storageVars, claims, txStatus, now,
          lastStep, ghostVars, libVars>>

Min(a, b) == IF a < b THEN a ELSE b

(***************************************************************************)
(* rarity.ts                                                               *)
(***************************************************************************)
Tiers == <<"common", "uncommon", "rare", "epic", "legendary", "mythic">>

\* dropRate in hundredths of a percent, multiplier in tenths.
RARITY_CONFIGS ==
    [common    |-> [dropRate |-> 5000, multiplier |-> 10],
     uncommon  |-> [dropRate |-> 3000, multiplier |-> 15],
     rare      |-> [dropRate |-> 1500, multiplier |-> 20],
     epic      |-> [dropRate |-> 400,  multiplier |-> 30],
     legendary |-> [dropRate |-> 90,   multiplier |-> 50],
     mythic    |-> [dropRate |-> 10,   multiplier |-> 100]]

\* The loop of calculateRarity with a strict comparison.
RECURSIVE ScanTiersStrict(_, _, _)
ScanTiersStrict(random, i, cumulative) ==
    IF i > Len(Tiers) THEN 0
    ELSE LET c == cumulative + RARITY_CONFIGS[Tiers[i]].dropRate
         IN  IF random < c THEN i ELSE ScanTiersStrict(random, i + 1, c)

\* The loop of calculateRarity from tier i on: the index of the tier it returns, 0 when
\* it ends without a return.
RECURSIVE ScanTiers(_, _, _)
ScanTiers(random, i, cumulative) ==
    IF i > Len(Tiers) THEN 0
    ELSE LET c == cumulative + RARITY_CONFIGS[Tiers[i]].dropRate
         IN  IF random <= c THEN i ELSE ScanTiers(random, i + 1, c)

\* The loop ends without a return and calculateRarity takes its last line.
reachesFallback(random) == ScanTiers(random, 1, 0) = 0

\* random is Math.random() * 100 in hundredths of a percent.
calculateRarity(random) ==
    IF reachesFallback(random) THEN "common" ELSE Tiers[ScanTiers(random, 1, 0)]

\* Math.ceil in the place of Math.floor.
calculateRewardCeil(baseReward, rarity) ==
    (baseReward * RARITY_CONFIGS[rarity].multiplier + 9) \div 10

calculateReward(baseReward, rarity) ==
    (baseReward * RARITY_CONFIGS[rarity].multiplier) \div 10

(***************************************************************************)
(* Durable storage (localStorage), keyed by the lower-cased address.       *)
(***************************************************************************)
toLowerCase(s) ==
    CASE s = "0xA1" -> "0xa1"
      [] s = "0xB2" -> "0xb2"
      [] s = "0X8173" -> "0x8173"
      [] OTHER -> s

StorageKeys == {toLowerCase(a) : a \in WalletAccounts}

\* failing is the set of localStorage operations that throw at present: none, setItem
\* alone (quota exceeded) or all of them (storage unavailable).
StorageFaults == {{}, {"setItem"}, {"setItem", "getItem", "removeItem"}}

\* A storage function that lets the error of a failed operation reach its caller.
storageCallReturnsIfWorks(op) == op \notin failing

\* try { localStorage.op(...) } catch (error) { console.error(...) }: the storage
\* function returns to its caller whether or not the operation failed.
storageCallReturns(op) == TRUE

\* A savePendingReward that writes nothing.
savePendingRewardLost(store, addr, reward, sid) == store

\* The record carries the session it came from (sid), which the program does not store.
savePendingReward(store, addr, reward, sid) ==
    IF addr = "" \/ "setItem" \in failing THEN store
    ELSE [store EXCEPT ![toLowerCase(addr)] =
              [amount |-> reward, timestamp |-> now, sid |-> sid]]

\* A clearPendingReward that removes nothing.
clearPendingRewardKeeps(store, addr) == store

clearPendingReward(store, addr) ==
    IF addr = "" \/ "removeItem" \in failing THEN store
    ELSE [store EXCEPT ![toLowerCase(addr)] = None]

\* A loadPendingReward that already drops a record whose age is exactly the window.
loadPendingRewardValueStrict(store, addr) ==
    IF addr = "" \/ "getItem" \in failing THEN None
    ELSE LET data == store[toLowerCase(addr)]
         IN  IF data = None THEN None
             ELSE IF now - data.timestamp >= fiveMinutes THEN None
             ELSE data

\* The value loadPendingReward returns (None for null) ...
loadPendingRewardValue(store, addr) ==
    IF addr = "" \/ "getItem" \in failing THEN None
    ELSE LET data == store[toLowerCase(addr)]
         IN  IF data = None THEN None
             ELSE IF now - data.timestamp > fiveMinutes THEN None
             ELSE data

\* ... and the storage it leaves: an expired record is removed.
loadPendingRewardStore(store, addr) ==
    IF addr = "" \/ "getItem" \in failing THEN store
    ELSE LET data == store[toLowerCase(addr)]
         IN  IF data # None /\ now - data.timestamp > fiveMinutes
             THEN clearPendingReward(store, addr)
             ELSE store

saveStatsToStorage(store, addr, newStats) ==
    IF addr = "" \/ "setItem" \in failing THEN store
    ELSE [store EXCEPT ![toLowerCase(addr)] = newStats]

loadStatsFromStorage(store, addr) ==
    IF addr = "" \/ "getItem" \in failing THEN None ELSE store[toLowerCase(addr)]

(***************************************************************************)
(* Session status, as the page derives it from the three flags.            *)
(***************************************************************************)
Status ==
    IF isClaiming THEN "Claiming"
    ELSE IF isMining THEN "Mining"
    ELSE IF isReadyToClaim THEN "ReadyToClaim"
    ELSE "Idle"

ZeroStats == [minecart |-> 0, multiplier |-> 10, seasonPoints |-> 0, hashRate |-> 0]

\* A progress that is not capped at 100.
ProgressUncapped(elapsed, duration) == [num |-> elapsed, den |-> duration * 10]

\* miningProgress is the fraction num/den of a percent.
Progress(elapsed, duration) ==
    IF elapsed >= duration * 1000 THEN [num |-> 100, den |-> 1]
    ELSE [num |-> elapsed, den |-> duration * 10]

ProgressZero == [num |-> 0, den |-> 1]
ProgressFull == [num |-> 100, den |-> 1]

\* The hook after construction, the clock aside.
HookInit ==
    /\ isConnected = FALSE
    /\ address = ""
    /\ chainId \in ChainIds
    /\ loadedCartridge = FALSE
    /\ isMining = FALSE
    /\ isReadyToClaim = FALSE
    /\ isClaiming = FALSE
    /\ pendingReward = 0
    /\ pendingRarity = "null"
    /\ miningProgress = ProgressZero
    /\ miningDuration = 0
    /\ stats = ZeroStats
    /\ startTimeRef = 0
    /\ miningTimeoutRef = None
    /\ hashRateIntervalRef = FALSE
    /\ progressIntervalRef = None
    /\ pendingStore = [k \in StorageKeys |-> None]
    /\ statsStore = [k \in StorageKeys |-> None]
    /\ failing = {}
    /\ claims = <<>>
    /\ txStatus = [t \in 1..MaxTx |-> "none"]
    /\ lastStep = "-"
    /\ sessionCount = 0
    /\ rewardSession = 0
    /\ credited = [s \in 0..MaxSessions |-> 0]
    /\ cancelled = [s \in 0..MaxSessions |-> "-"]
    /\ finalRewardOf = [s \in 0..MaxSessions |-> 0]

AppInit == HookInit /\ now = 0

\* The libraries at rest.
NoCall == [fn |-> "-"]

LibIdle ==
    /\ call = NoCall
    /\ combo = None
    /\ challengeState = None
    /\ challengeStore = None
    /\ achievementState = None

Init == AppInit /\ LibIdle

(***************************************************************************)
(* Wallet and equipment (useWallet, useCartridge) with the effects of      *)
(* useMining that their changes trigger.                                   *)
(***************************************************************************)

\* checkConnection / connect: the wallet reports an account; the restore effect of
\* useMining then loads the stats and the pending reward of that account.
Connect(a) ==
    /\ ~isConnected
    /\ isConnected' = TRUE
    /\ address' = a
    /\ LET savedStats == loadStatsFromStorage(statsStore, a)
           savedPendingReward == loadPendingRewardValue(pendingStore, a)
           restored == savedPendingReward # None /\ savedPendingReward.amount > 0
       IN  /\ stats' = IF savedStats # None
                       THEN [stats EXCEPT !.minecart = savedStats.minecart,
                                          !.seasonPoints = savedStats.seasonPoints,
                                          !.multiplier = savedStats.multiplier]
                       ELSE stats
           /\ pendingStore' = loadPendingRewardStore(pendingStore, a)
           /\ pendingReward' = IF restored THEN savedPendingReward.amount ELSE pendingReward
           /\ rewardSession' = IF restored THEN savedPendingReward.sid ELSE rewardSession
           /\ isReadyToClaim' = IF restored THEN TRUE ELSE isReadyToClaim
           /\ miningProgress' = IF restored THEN ProgressFull ELSE miningProgress
           /\ lastStep' = IF restored THEN "Unclaimed reward restored" ELSE "-"
    /\ UNCHANGED <<chainId, loadedCartridge, isMining, isClaiming, pendingRarity,
                   miningDuration, startTimeRef, timerVars, statsStore, failing, claims, txStatus,
                   now, sessionCount, credited, cancelled, libVars, finalRewardOf>>

\* The sessions that a cancel discards from memory: the one being mined and the one
\* whose reward is pending.
MarkCancelled ==
    LET mined == IF miningTimeoutRef # None THEN {miningTimeoutRef.sid} ELSE {}
        held == (mined \cup {rewardSession}) \ {0}
    IN  [s \in 0..MaxSessions |->
            IF s \in held
            THEN IF isClaiming THEN "cancelled while claiming" ELSE "cancelled"
            ELSE cancelled[s]]

\* disconnect / accountsChanged([]): the address becomes '', the cartridge is unloaded,
\* and the connection effect of useMining stops a running session (stopMining of the new
\* render, whose address is '') and resets the stats and the pending reward in memory.
Disconnect ==
    /\ isConnected
    /\ isConnected' = FALSE
    /\ address' = ""
    /\ loadedCartridge' = FALSE
    /\ isMining' = FALSE
    /\ isReadyToClaim' = FALSE
    /\ pendingReward' = 0
    /\ rewardSession' = 0
    /\ stats' = ZeroStats
    /\ pendingRarity' = IF isMining THEN "null" ELSE pendingRarity
    /\ miningProgress' = IF isMining THEN ProgressZero ELSE miningProgress
    /\ pendingStore' = IF isMining THEN clearPendingReward(pendingStore, "") ELSE pendingStore
    /\ miningTimeoutRef' = IF isMining THEN None ELSE miningTimeoutRef
    /\ hashRateIntervalRef' = IF isMining THEN FALSE ELSE hashRateIntervalRef
    /\ progressIntervalRef' = IF isMining THEN None ELSE progressIntervalRef
    /\ cancelled' = IF isMining THEN MarkCancelled ELSE cancelled
    /\ lastStep' = IF isMining THEN "Mining cancelled" ELSE "-"
    /\ UNCHANGED <<chainId, isClaiming, miningDuration, startTimeRef, statsStore, failing, claims,
                   txStatus, now, sessionCount, credited, libVars, finalRewardOf>>

LoadCartridge ==
    /\ isConnected
    /\ ~loadedCartridge
    /\ loadedCartridge' = TRUE
    /\ lastStep' = "-"
    /\ UNCHANGED <<isConnected, address, chainId, sessionVars, timerVars, storageVars,
                   claims, txStatus, now, ghostVars, libVars>>

(***************************************************************************)
(* useMining: start, tickers, completion, cancel.                          *)
(***************************************************************************)

\* The conditions under which startMining goes past its early returns.
StartAccepted == isConnected /\ loadedCartridge /\ ~isMining

\* Math.floor(duration / 5) + Math.floor(Math.random() * 3) + 1, bonus being the
\* second term.
baseReward(duration, bonus) == (duration \div 5) + bonus + 1

StartMining(duration, bonus, random) ==
    /\ StartAccepted
    /\ sessionCount < MaxSessions
    /\ LET rarity == calculateRarity(random)
           finalReward == calculateReward(baseReward(duration, bonus), rarity)
           sid == sessionCount + 1
       IN  /\ miningDuration' = duration
           /\ miningProgress' = ProgressZero
           /\ startTimeRef' = now
           /\ pendingReward' = finalReward
           /\ pendingRarity' = rarity
           /\ isMining' = TRUE
           /\ isReadyToClaim' = FALSE
           /\ hashRateIntervalRef' = TRUE
           /\ progressIntervalRef' = [duration |-> duration]
           /\ miningTimeoutRef' = [address |-> address, finalReward |-> finalReward,
                                   rarity |-> rarity, due |-> now + duration * 1000,
                                   sid |-> sid]
           /\ sessionCount' = sid
           /\ rewardSession' = sid
           /\ finalRewardOf' = [finalRewardOf EXCEPT ![sid] = finalReward]
    /\ lastStep' = "Mining started"
    /\ UNCHANGED <<walletVars, isClaiming, stats, storageVars, claims, txStatus, now,
                   credited, cancelled, libVars>>

HashRateTick ==
    /\ hashRateIntervalRef
    /\ \E h \in HashRateDraws : stats' = [stats EXCEPT !.hashRate = h]
    /\ lastStep' = "-"
    /\ UNCHANGED <<walletVars, isMining, isReadyToClaim, isClaiming, pendingReward,
                   pendingRarity, miningProgress, miningDuration, startTimeRef, timerVars,
                   storageVars, claims, txStatus, now, ghostVars, libVars>>

ProgressTick ==
    /\ progressIntervalRef # None
    /\ miningProgress' = Progress(now - startTimeRef, progressIntervalRef.duration)
    /\ lastStep' = "-"
    /\ UNCHANGED <<walletVars, isMining, isReadyToClaim, isClaiming, pendingReward,
                   pendingRarity, miningDuration, stats, startTimeRef, timerVars,
                   storageVars, claims, txStatus, now, ghostVars, libVars>>

\* The callback of the completion timeout, with the address, reward and rarity that its
\* closure captured in startMining.
MiningTimeout ==
    /\ miningTimeoutRef # None
    /\ now >= miningTimeoutRef.due
    /\ isMining' = FALSE
    /\ isReadyToClaim' = TRUE
    /\ miningProgress' = ProgressFull
    /\ pendingStore' = savePendingReward(pendingStore, miningTimeoutRef.address,
                                         miningTimeoutRef.finalReward, miningTimeoutRef.sid)
    /\ miningTimeoutRef' = None
    /\ IF storageCallReturns("setItem")
       THEN /\ hashRateIntervalRef' = FALSE
            /\ progressIntervalRef' = None
            /\ stats' = [stats EXCEPT !.hashRate = 0]
            /\ lastStep' = "Mining complete"
       ELSE /\ UNCHANGED <<hashRateIntervalRef, progressIntervalRef, stats>>
            /\ lastStep' = "-"
    /\ UNCHANGED <<walletVars, isClaiming, pendingReward, pendingRarity, miningDuration,
                   startTimeRef, statsStore, failing, claims, txStatus, now, ghostVars, libVars>>

\* The state changes of stopMining past its early return, run with address addr.
\* A stopMining that leaves the completion timeout set.
StopMiningKeepsTimeout(addr) ==
    /\ isMining' = FALSE
    /\ isReadyToClaim' = FALSE
    /\ miningProgress' = ProgressZero
    /\ pendingReward' = 0
    /\ rewardSession' = 0
    /\ pendingRarity' = "null"
    /\ pendingStore' = clearPendingReward(pendingStore, addr)
    /\ miningTimeoutRef' = miningTimeoutRef
    /\ hashRateIntervalRef' = FALSE
    /\ progressIntervalRef' = None
    /\ stats' = [stats EXCEPT !.hashRate = 0]
    /\ cancelled' = MarkCancelled
    /\ lastStep' = "Mining cancelled"

StopMiningEffect(addr) ==
    /\ isMining' = FALSE
    /\ isReadyToClaim' = FALSE
    /\ miningProgress' = ProgressZero
    /\ pendingReward' = 0
    /\ rewardSession' = 0
    /\ pendingRarity' = "null"
    /\ pendingStore' = clearPendingReward(pendingStore, addr)
    /\ miningTimeoutRef' = None
    /\ hashRateIntervalRef' = FALSE
    /\ progressIntervalRef' = None
    /\ stats' = [stats EXCEPT !.hashRate = 0]
    /\ cancelled' = MarkCancelled
    /\ lastStep' = "Mining cancelled"

StopMining ==
    /\ isMining \/ isReadyToClaim
    /\ StopMiningEffect(address)
    /\ UNCHANGED <<walletVars, isClaiming, miningDuration, startTimeRef, statsStore, failing,
                   claims, txStatus, now, sessionCount, credited, libVars, finalRewardOf>>

\* ejectCartridge, and the cartridge effect of useMining, which stops a running session.
EjectCartridge ==
    /\ loadedCartridge
    /\ loadedCartridge' = FALSE
    /\ IF isConnected /\ isMining
       THEN StopMiningEffect(address)
       ELSE /\ lastStep' = "-"
            /\ UNCHANGED <<isMining, isReadyToClaim, miningProgress, pendingReward,
                           rewardSession, pendingRarity, pendingStore, timerVars, stats,
                           cancelled>>
    /\ UNCHANGED <<isConnected, address, chainId, isClaiming, miningDuration, startTimeRef,
                   statsStore, failing, claims, txStatus, now, sessionCount, credited, libVars, finalRewardOf>>

(***************************************************************************)
(* useMining.claimReward: one process per invocation that went past the    *)
(* guard.  Each await is a step, taken when the awaited call answers; pc   *)
(* names the call the process waits for.  The process keeps what the       *)
(* closure captured (pendingReward, stats, address), the balance it read,  *)
(* and counts the calls it has issued.                                     *)
(***************************************************************************)

\* A guard of claimReward that does not look at the claiming flag.
ClaimAcceptedReentrant == isReadyToClaim

\* The guard of claimReward: it returns at once unless this holds.
ClaimAccepted == isReadyToClaim /\ ~isClaiming

ClaimReward ==
    /\ ClaimAccepted
    /\ Len(claims) < MaxTx
    /\ isClaiming' = TRUE
    /\ claims' = Append(claims,
                   [pc |-> "getChainId", pendingReward |-> pendingReward,
                    sid |-> rewardSession, stats |-> stats, address |-> address,
                    mismatch |-> FALSE, switchCalls |-> 0, balanceCalls |-> 0,
                    gasCalls |-> 0, submitCalls |-> 0, balanceWei |-> 0, txHash |-> 0,
                    attempts |-> 0])
    /\ lastStep' = "Initiating claim transaction..."
    /\ UNCHANGED <<walletVars, isMining, isReadyToClaim, pendingReward, pendingRarity,
                   miningProgress, miningDuration, stats, startTimeRef, timerVars,
                   storageVars, txStatus, now, ghostVars, libVars>>

RemoveAt(seq, i) == SubSeq(seq, 1, i - 1) \o SubSeq(seq, i + 1, Len(seq))

\* The message of the error toast that the catch block shows.
ErrorToast(message) ==
    IF message = "User rejected the request" THEN "Transaction cancelled by user"
    ELSE message

\* The transaction of a process that ends is no longer observed.
ForgetTx(i) ==
    IF claims[i].txHash = 0 THEN txStatus
    ELSE [txStatus EXCEPT ![claims[i].txHash] = "none"]

\* An end of the invocation that leaves the claiming flag set.
ClaimEndKeepsClaiming(i, message) ==
    /\ claims' = RemoveAt(claims, i)
    /\ isClaiming' = isClaiming
    /\ lastStep' = message
    /\ txStatus' = ForgetTx(i)

\* finally: the claiming flag is cleared and the invocation is over.
ClaimEnd(i, message) ==
    /\ claims' = RemoveAt(claims, i)
    /\ isClaiming' = FALSE
    /\ lastStep' = message
    /\ txStatus' = ForgetTx(i)

\* catch and finally: the error is shown, nothing else changes.
ClaimFail(i, message) ==
    /\ ClaimEnd(i, ErrorToast(message))
    /\ UNCHANGED <<walletVars, isMining, isReadyToClaim, pendingReward, pendingRarity,
                   miningProgress, miningDuration, stats, startTimeRef, timerVars,
                   storageVars, now, ghostVars, libVars>>

ClaimGoto(i, next) ==
    /\ claims' = [claims EXCEPT ![i] = next]
    /\ lastStep' = "-"
    /\ UNCHANGED <<walletVars, sessionVars, timerVars, storageVars, txStatus, now,
                   ghostVars, libVars>>

\* getChainId returns '' when the request fails; both ids are lower-cased and trimmed.
ClaimVerifyNetwork(i) ==
    /\ claims[i].pc = "getChainId"
    /\ \E currentChainId \in {chainId, ""} :
          IF toLowerCase(currentChainId) # toLowerCase(APECHAIN_CHAIN_ID)
          THEN ClaimGoto(i, [claims[i] EXCEPT !.pc = "switch", !.mismatch = TRUE,
                                              !.switchCalls = @ + 1])
          ELSE ClaimGoto(i, [claims[i] EXCEPT !.pc = "requestAccounts"])

\* A claimReward that goes on with the claim after a successful switch.
ClaimSwitchNetworkContinues(i) ==
    /\ claims[i].pc = "switch"
    /\ \/ /\ chainId' = APECHAIN_CHAIN_ID
          /\ claims' = [claims EXCEPT ![i] = [@ EXCEPT !.pc = "requestAccounts"]]
          /\ lastStep' = "-"
          /\ UNCHANGED <<isConnected, address, loadedCartridge, sessionVars, timerVars,
                         storageVars, txStatus, now, ghostVars, libVars>>
       \/ ClaimFail(i, "Please manually switch to ApeChain mainnet in MetaMask")

\* switchToApeChain: on success the attempt returns, on failure it throws.
ClaimSwitchNetwork(i) ==
    /\ claims[i].pc = "switch"
    /\ \/ /\ chainId' = APECHAIN_CHAIN_ID
          /\ ClaimEnd(i, "Switched to ApeChain! Please try claiming again.")
          /\ UNCHANGED <<isConnected, address, loadedCartridge, isMining, isReadyToClaim,
                         pendingReward, pendingRarity, miningProgress, miningDuration,
                         stats, startTimeRef, timerVars, storageVars, now, ghostVars, libVars>>
       \/ ClaimFail(i, "Please manually switch to ApeChain mainnet in MetaMask")

ClaimRequestAccounts(i) ==
    /\ claims[i].pc = "requestAccounts"
    /\ \/ ClaimGoto(i, [claims[i] EXCEPT !.pc = "getBalance", !.balanceCalls = @ + 1])
       \/ \E e \in ErrorKinds : ClaimFail(i, e)

\* A required balance without the gas buffer.
requiredBalanceNoBuffer == CLAIM_FEE_WEI

requiredBalance == CLAIM_FEE_WEI + GAS_BUFFER_WEI

ClaimCheckBalance(i) ==
    /\ claims[i].pc = "getBalance"
    /\ \/ \E balanceWei \in BalanceDraws :
             IF balanceWei < requiredBalance
             THEN ClaimFail(i, "Insufficient balance. Need at least 0.0101 APE")
             ELSE ClaimGoto(i, [claims[i] EXCEPT !.pc = "estimateGas",
                                                 !.balanceWei = balanceWei,
                                                 !.gasCalls = @ + 1])
       \/ ClaimFail(i, "RPC failure")

ClaimEstimateGas(i) ==
    /\ claims[i].pc = "estimateGas"
    /\ \/ ClaimGoto(i, [claims[i] EXCEPT !.pc = "gasPrice"])
       \/ ClaimFail(i, "RPC failure")

ClaimGasPrice(i) ==
    /\ claims[i].pc = "gasPrice"
    /\ \/ ClaimGoto(i, [claims[i] EXCEPT !.pc = "sendTransaction",
                                        !.submitCalls = @ + 1])
       \/ ClaimFail(i, "RPC failure")

\* eth_sendTransaction: the wallet returns a hash, or the user or the node refuses.
ClaimSendTransaction(i) ==
    /\ claims[i].pc = "sendTransaction"
    /\ \/ \E t \in 1..MaxTx :
             /\ txStatus[t] = "none"
             /\ \A u \in 1..(t - 1) : txStatus[u] # "none"
             /\ txStatus' = [txStatus EXCEPT ![t] = "pending"]
             /\ claims' = [claims EXCEPT ![i] = [@ EXCEPT !.pc = "poll", !.txHash = t]]
             /\ lastStep' = "-"
             /\ UNCHANGED <<walletVars, sessionVars, timerVars, storageVars, now,
                            ghostVars, libVars>>
       \/ \E e \in ErrorKinds : ClaimFail(i, e)

\* The chain includes the transaction; its receipt carries a status.
ChainMine(t) ==
    /\ txStatus[t] = "pending"
    /\ \E st \in ReceiptStatuses : txStatus' = [txStatus EXCEPT ![t] = st]
    /\ lastStep' = "-"
    /\ UNCHANGED <<walletVars, sessionVars, timerVars, storageVars, claims, now,
                   ghostVars, libVars>>

\* A receipt check that lets every receipt pass.
ReceiptPassesAlways(status) == TRUE

\* A receipt passes the check of claimReward unless its status is '0x0'.
ReceiptPasses(status) == status # "0x0"

\* Settle: the lines of claimReward after the receipt check, then finally.
Settle(i) ==
    LET c == claims[i]
        newStats == [minecart |-> c.stats.minecart + c.pendingReward,
                     seasonPoints |-> c.stats.seasonPoints
                                        + c.pendingReward * SeasonPointsPerData,
                     multiplier |-> Min(c.stats.multiplier + 1, MaxMultiplier)]
    IN  /\ stats' = [stats EXCEPT !.minecart = newStats.minecart,
                                  !.seasonPoints = newStats.seasonPoints,
                                  !.multiplier = newStats.multiplier]
        /\ statsStore' = saveStatsToStorage(statsStore, c.address, newStats)
        /\ IF storageCallReturns("setItem") /\ storageCallReturns("removeItem")
           THEN /\ pendingStore' = clearPendingReward(pendingStore, c.address)
                /\ isReadyToClaim' = FALSE
                /\ pendingReward' = 0
                /\ rewardSession' = 0
                /\ pendingRarity' = "null"
                /\ miningProgress' = ProgressZero
                /\ ClaimEnd(i, "Successfully claimed")
           ELSE /\ pendingStore' = IF storageCallReturns("setItem")
                                   THEN clearPendingReward(pendingStore, c.address)
                                   ELSE pendingStore
                /\ UNCHANGED <<isReadyToClaim, pendingReward, rewardSession, pendingRarity,
                               miningProgress>>
                /\ ClaimEnd(i, ErrorToast("Failed to claim reward"))
        /\ credited' = [credited EXCEPT ![c.sid] = Min(@ + 1, 2)]
        /\ UNCHANGED <<walletVars, isMining, miningDuration, startTimeRef, timerVars, now,
                       failing, sessionCount, cancelled, libVars, finalRewardOf>>

\* The rounds of the polling loop after which the model looks at the attempt.
ObservedRounds == {1, maxAttempts - 1, maxAttempts}

NextRound(attempts) ==
    CHOOSE r \in ObservedRounds :
        r > attempts /\ \A q \in ObservedRounds : q > attempts => r <= q

\* A polling loop whose timeout discards the pending reward record.
ClaimPollDiscardsOnTimeout(i) ==
    /\ claims[i].pc = "poll"
    /\ \E requestOk \in BOOLEAN :
          LET st == txStatus[claims[i].txHash]
              receipt == IF requestOk /\ st \in ReceiptStatuses THEN st ELSE "null"
              attempts == NextRound(claims[i].attempts)
          IN  IF receipt = "null"
              THEN IF attempts < maxAttempts
                   THEN ClaimGoto(i, [claims[i] EXCEPT !.attempts = attempts])
                   ELSE /\ ClaimEnd(i, "Transaction timeout - check your wallet for status")
                        /\ pendingStore' = clearPendingReward(pendingStore, claims[i].address)
                        /\ UNCHANGED <<walletVars, isMining, isReadyToClaim, pendingReward,
                                       pendingRarity, miningProgress, miningDuration, stats,
                                       startTimeRef, timerVars, statsStore, failing, now, ghostVars, libVars>>
              ELSE IF ReceiptPasses(receipt)
                   THEN Settle(i)
                   ELSE ClaimFail(i, "Transaction failed - reverted")

\* The polling loop up to its next observed round: wait, ask for the receipt (a failed
\* request counts as no receipt), count the attempt; then the checks after the loop when
\* it ends.  The rounds skipped in between returned no receipt.
ClaimPoll(i) ==
    /\ claims[i].pc = "poll"
    /\ \E requestOk \in BOOLEAN :
          LET st == txStatus[claims[i].txHash]
              receipt == IF requestOk /\ st \in ReceiptStatuses THEN st ELSE "null"
              attempts == NextRound(claims[i].attempts)
          IN  IF receipt = "null"
              THEN IF attempts < maxAttempts
                   THEN ClaimGoto(i, [claims[i] EXCEPT !.attempts = attempts])
                   ELSE ClaimFail(i, "Transaction timeout - check your wallet for status")
              ELSE IF ReceiptPasses(receipt)
                   THEN Settle(i)
                   ELSE ClaimFail(i, "Transaction failed - reverted")

(***************************************************************************)
(* Page reload, chain change, time.                                        *)
(***************************************************************************)

\* A reload ends every callback of the page and starts from the initial React state;
\* durable storage stays.
ReloadPage ==
    /\ isConnected' = FALSE
    /\ address' = ""
    /\ loadedCartridge' = FALSE
    /\ isMining' = FALSE
    /\ isReadyToClaim' = FALSE
    /\ isClaiming' = FALSE
    /\ pendingReward' = 0
    /\ rewardSession' = 0
    /\ pendingRarity' = "null"
    /\ miningProgress' = ProgressZero
    /\ miningDuration' = 0
    /\ stats' = ZeroStats
    /\ startTimeRef' = 0
    /\ miningTimeoutRef' = None
    /\ hashRateIntervalRef' = FALSE
    /\ progressIntervalRef' = None
    /\ claims' = <<>>
    /\ txStatus' = [t \in 1..MaxTx |-> "none"]
    /\ lastStep' = "-"
    /\ UNCHANGED <<storageVars, now, sessionCount, credited, cancelled, libVars, finalRewardOf>>

Reload ==
    /\ ReloadPage
    /\ UNCHANGED chainId

\* handleChainChanged: the wallet moved to another chain and the page reloads.
ChainChanged ==
    /\ \E c \in ChainIds \ {chainId} : chainId' = c
    /\ ReloadPage

AdvanceTime ==
    /\ \E t \in TimePoints : t > now /\ now' = t
    /\ lastStep' = "-"
    /\ UNCHANGED <<walletVars, sessionVars, timerVars, storageVars, claims, txStatus,
                   ghostVars, libVars>>

Next ==
    \/ \E a \in Accounts : Connect(a)
    \/ Disconnect
    \/ LoadCartridge
    \/ EjectCartridge
    \/ \E d \in StartDraws : StartMining(d[1], d[2], d[3])
    \/ HashRateTick
    \/ ProgressTick
    \/ MiningTimeout
    \/ StopMining
    \/ ClaimReward
    \/ \E i \in DOMAIN claims : ClaimVerifyNetwork(i)
    \/ \E i \in DOMAIN claims : ClaimSwitchNetwork(i)
    \/ \E i \in DOMAIN claims : ClaimRequestAccounts(i)
    \/ \E i \in DOMAIN claims : ClaimCheckBalance(i)
    \/ \E i \in DOMAIN claims : ClaimEstimateGas(i)
    \/ \E i \in DOMAIN claims : ClaimGasPrice(i)
    \/ \E i \in DOMAIN claims : ClaimSendTransaction(i)
    \/ \E i \in DOMAIN claims : ClaimPoll(i)
    \/ \E t \in 1..MaxTx : ChainMine(t)
    \/ Reload
    \/ ChainChanged
    \/ AdvanceTime

Spec == Init /\ [][Next]_vars

(***************************************************************************)
(* The hook with a clock that reaches the instant for which the completion *)
(* timeout is set, and with the browser's guarantee that a timeout which   *)
(* is due and was not cleared runs its callback.                           *)
(***************************************************************************)
TimeoutDue ==
    /\ miningTimeoutRef # None
    /\ now < miningTimeoutRef.due
    /\ now' = miningTimeoutRef.due
    /\ lastStep' = "-"
    /\ UNCHANGED <<walletVars, sessionVars, timerVars, storageVars, claims, txStatus,
                   ghostVars, libVars>>

NextTimer == Next \/ TimeoutDue

SpecTimer == Init /\ [][NextTimer]_vars /\ WF_vars(TimeoutDue) /\ WF_vars(MiningTimeout)

(***************************************************************************)
(* The hook with a wallet and a node that answer: every call that an       *)
(* invocation of claimReward awaits returns or fails, and the wait between *)
(* two polls ends.                                                         *)
(***************************************************************************)
ClaimStep ==
    \E i \in DOMAIN claims :
        \/ ClaimVerifyNetwork(i)
        \/ ClaimSwitchNetwork(i)
        \/ ClaimRequestAccounts(i)
        \/ ClaimCheckBalance(i)
        \/ ClaimEstimateGas(i)
        \/ ClaimGasPrice(i)
        \/ ClaimSendTransaction(i)
        \/ ClaimPoll(i)

SpecClaim == Init /\ [][Next]_vars /\ WF_vars(ClaimStep)

(***************************************************************************)
(* The hook with a wallet whose selected account changes while the page is *)
(* open.  handleAccountsChanged sets the new address and leaves the        *)
(* connection as it is; the effects of useMining that depend on the        *)
(* address run in the same step.                                           *)
(***************************************************************************)
AccountsChanged(b) ==
    /\ b # address
    /\ address' = b
    /\ IF isConnected
       THEN LET savedStats == loadStatsFromStorage(statsStore, b)
                savedPendingReward == loadPendingRewardValue(pendingStore, b)
                restored == savedPendingReward # None /\ savedPendingReward.amount > 0
            IN  /\ stats' = IF savedStats # None
                            THEN [stats EXCEPT !.minecart = savedStats.minecart,
                                               !.seasonPoints = savedStats.seasonPoints,
                                               !.multiplier = savedStats.multiplier]
                            ELSE stats
                /\ pendingStore' = loadPendingRewardStore(pendingStore, b)
                /\ pendingReward' = IF restored THEN savedPendingReward.amount
                                    ELSE pendingReward
                /\ rewardSession' = IF restored THEN savedPendingReward.sid
                                    ELSE rewardSession
                /\ isReadyToClaim' = IF restored THEN TRUE ELSE isReadyToClaim
                /\ miningProgress' = IF restored THEN ProgressFull ELSE miningProgress
                /\ lastStep' = "Account changed"
       ELSE /\ lastStep' = "Account changed"
            /\ UNCHANGED <<stats, pendingStore, pendingReward, rewardSession,
                           isReadyToClaim, miningProgress>>
    /\ UNCHANGED <<isConnected, chainId, loadedCartridge, isMining, isClaiming,
                   pendingRarity, miningDuration, startTimeRef, timerVars, statsStore,
                   failing, claims, txStatus, now, sessionCount, credited, cancelled,
                   libVars, finalRewardOf>>

\* The steps from connect to settle, with the account switch.  A reward is claimed at
\* most MaxCredits times, which bounds the balances.
NextAccounts ==
    \/ \E a \in Accounts : Connect(a)
    \/ LoadCartridge
    \/ \E d \in StartDraws : StartMining(d[1], d[2], d[3])
    \/ MiningTimeout
    \/ (\A s \in 0..MaxSessions : credited[s] < MaxCredits) /\ ClaimReward
    \/ ClaimStep
    \/ \E t \in 1..MaxTx : ChainMine(t)
    \/ AdvanceTime
    \/ \E b \in WalletAccounts : AccountsChanged(b)

SpecAccounts == Init /\ [][NextAccounts]_vars

(***************************************************************************)
(* The hook with a durable storage whose operations may start to fail      *)
(* between any two steps and fail from then on.                            *)
(***************************************************************************)
StorageFault ==
    /\ failing = {}
    /\ \E f \in StorageFaults \ {failing} : failing' = f
    /\ lastStep' = "-"
    /\ UNCHANGED <<walletVars, sessionVars, timerVars, pendingStore, statsStore, claims,
                   txStatus, now, ghostVars, libVars>>

NextStorage == Next \/ StorageFault

SpecStorage == Init /\ [][NextStorage]_vars

(***************************************************************************)
(* rarity.ts as a library: one call of calculateRarity or calculateReward  *)
(* with inputs drawn at the start, applied by the action of its name.      *)
(***************************************************************************)
MaxBase == 40

\* The libraries run beside a hook that stays in its initial state.
AppAtRest == AppInit /\ chainId = APECHAIN_CHAIN_ID

RarityCalls ==
    {[fn |-> "calculateRarity", random |-> d, returned |-> FALSE] : d \in RandomDraws}

RewardCalls ==
    {[fn |-> "calculateReward", baseReward |-> b, rarity |-> Tiers[i], returned |-> FALSE] :
        b \in 0..MaxBase, i \in 1..Len(Tiers)}

InitEngine ==
    /\ AppAtRest
    /\ call \in RarityCalls \cup RewardCalls
    /\ combo = None
    /\ challengeState = None
    /\ challengeStore = None
    /\ achievementState = None

CalculateRarity ==
    /\ call.fn = "calculateRarity"
    /\ ~call.returned
    /\ call' = [fn |-> "calculateRarity", random |-> call.random, returned |-> TRUE,
                result |-> calculateRarity(call.random),
                fallback |-> reachesFallback(call.random)]
    /\ UNCHANGED <<appVars, now, combo, challengeState, challengeStore, achievementState>>

CalculateReward ==
    /\ call.fn = "calculateReward"
    /\ ~call.returned
    /\ call' = [fn |-> "calculateReward", baseReward |-> call.baseReward,
                rarity |-> call.rarity, returned |-> TRUE,
                result |-> calculateReward(call.baseReward, call.rarity)]
    /\ UNCHANGED <<appVars, now, combo, challengeState, challengeStore, achievementState>>

NextEngine == CalculateRarity \/ CalculateReward

SpecEngine == InitEngine /\ [][NextEngine]_vars

(***************************************************************************)
(* The reward of one session as startMining computes it, for every         *)
(* duration, bonus and tier it can draw.                                   *)
(***************************************************************************)
SessionRewardCalls ==
    {[fn |-> "startMining", duration |-> d, bonus |-> b, rarity |-> Tiers[i],
      returned |-> FALSE] :
        d \in MinDuration..MaxDuration, b \in 0..(BonusRange - 1), i \in 1..Len(Tiers)}

InitSessionReward ==
    /\ AppAtRest
    /\ call \in SessionRewardCalls
    /\ combo = None
    /\ challengeState = None
    /\ challengeStore = None
    /\ achievementState = None

ComputeSessionReward ==
    /\ call.fn = "startMining"
    /\ ~call.returned
    /\ call' = [fn |-> "startMining", duration |-> call.duration, bonus |-> call.bonus,
                rarity |-> call.rarity, returned |-> TRUE,
                baseReward |-> baseReward(call.duration, call.bonus),
                finalReward |-> calculateReward(baseReward(call.duration, call.bonus),
                                                call.rarity)]
    /\ UNCHANGED <<appVars, now, combo, challengeState, challengeStore, achievementState>>

SpecSessionReward == InitSessionReward /\ [][ComputeSessionReward]_vars

(***************************************************************************)
(* combo.ts: the combo state and updateCombo. Multipliers are in tenths,   *)
(* times in milliseconds. Date.now() is the clock now: a call reads one    *)
(* millisecond for all its reads.                                          *)
(***************************************************************************)
COMBO_TIMEOUT == 2 * 60 * 1000

COMBO_MULTIPLIERS == [l \in 0..4 |-> <<10, 15, 20, 30, 50>>[l + 1]]

\* Level = streak - 1 without the cap at 4.
calculateComboLevelUncapped(streak) == IF streak < 2 THEN 0 ELSE streak - 1

calculateComboLevel(streak) ==
    IF streak < 2 THEN 0
    ELSE IF streak = 2 THEN 1
    ELSE IF streak = 3 THEN 2
    ELSE IF streak = 4 THEN 3
    ELSE 4

\* COMBO_MULTIPLIERS[level] || 1.0
getComboMultiplier(level) ==
    IF level \in DOMAIN COMBO_MULTIPLIERS /\ COMBO_MULTIPLIERS[level] # 0
    THEN COMBO_MULTIPLIERS[level] ELSE 10

\* Active up to and including the millisecond of expiry.
isComboActiveInclusive(comboState, dateNow) == dateNow <= comboState.expiresAt

isComboActive(comboState, dateNow) == dateNow < comboState.expiresAt

initComboState ==
    [level |-> 0, streak |-> 0, multiplier |-> 10, lastClaimTime |-> 0, expiresAt |-> 0]

updateCombo(currentState, dateNow) ==
    IF isComboActive(currentState, dateNow) /\ currentState.streak > 0
    THEN LET newStreak == currentState.streak + 1
             newLevel == calculateComboLevel(newStreak)
         IN  [level |-> newLevel, streak |-> newStreak,
              multiplier |-> getComboMultiplier(newLevel),
              lastClaimTime |-> dateNow, expiresAt |-> dateNow + COMBO_TIMEOUT]
    ELSE [level |-> 0, streak |-> 1, multiplier |-> 10,
          lastClaimTime |-> dateNow, expiresAt |-> dateNow + COMBO_TIMEOUT]

MaxStreak == 7

\* One call of updateCombo: the state it is given is the initial state or a state that
\* updateCombo returned at an earlier time, the clock is at or after that time.
ComboClaimTimes == {1000, 200000}
ComboDelays == {0, 1, COMBO_TIMEOUT - 1, COMBO_TIMEOUT, COMBO_TIMEOUT + 1, 150000}

ComboStates ==
    {initComboState} \cup
    {[level |-> calculateComboLevel(n), streak |-> n,
      multiplier |-> getComboMultiplier(calculateComboLevel(n)),
      lastClaimTime |-> t, expiresAt |-> t + COMBO_TIMEOUT] :
        n \in 1..MaxStreak, t \in ComboClaimTimes}

InitComboCall ==
    /\ HookInit
    /\ chainId = APECHAIN_CHAIN_ID
    /\ combo \in ComboStates
    /\ \E d \in ComboDelays : now = combo.lastClaimTime + d
    /\ call = [fn |-> "updateCombo", currentState |-> combo, returned |-> FALSE]
    /\ challengeState = None
    /\ challengeStore = None
    /\ achievementState = None

UpdateComboCall ==
    /\ call.fn = "updateCombo"
    /\ ~call.returned
    /\ combo' = updateCombo(call.currentState, now)
    /\ call' = [call EXCEPT !.returned = TRUE]
    /\ UNCHANGED <<appVars, now, challengeState, challengeStore, achievementState>>

SpecComboCall == InitComboCall /\ [][UpdateComboCall]_vars

\* A sequence of updateCombo calls from the initial combo state, the clock moving
\* between the calls.
MaxComboTime == 600000
ComboSteps == {40000, COMBO_TIMEOUT - 1, COMBO_TIMEOUT}

InitCombo ==
    /\ AppInit
    /\ chainId = APECHAIN_CHAIN_ID
    /\ call = NoCall
    /\ combo = initComboState
    /\ challengeState = None
    /\ challengeStore = None
    /\ achievementState = None

UpdateCombo ==
    /\ updateCombo(combo, now).streak <= MaxStreak
    /\ combo' = updateCombo(combo, now)
    /\ UNCHANGED <<appVars, now, call, challengeState, challengeStore, achievementState>>

ComboClock ==
    /\ \E d \in ComboSteps :
          /\ now + d <= MaxComboTime
          /\ now' = now + d
    /\ UNCHANGED <<appVars, libVars>>

NextCombo == UpdateCombo \/ ComboClock

SpecCombo == InitCombo /\ [][NextCombo]_vars

(***************************************************************************)
(* minting.ts, daily challenges. challengeStore is the localStorage entry  *)
(* under the key of the one account, challengeState the state a caller     *)
(* holds. Math.random() enters through the order the shuffle produces.     *)
(***************************************************************************)
CHALLENGE_DURATION == 24 * 60 * 60 * 1000

ChallengeTypes == {"mine_count", "data_earned", "rare_drops", "combo_level", "speed_mining"}

CHALLENGE_TEMPLATES ==
    << [type |-> "mine_count",   name |-> "Data Miner",     target |-> 5,   reward |-> 50],
       [type |-> "mine_count",   name |-> "Power User",     target |-> 10,  reward |-> 120],
       [type |-> "data_earned",  name |-> "Data Collector", target |-> 100, reward |-> 75],
       [type |-> "data_earned",  name |-> "Data Tycoon",    target |-> 250, reward |-> 200],
       [type |-> "rare_drops",   name |-> "Lucky Strike",   target |-> 2,   reward |-> 100],
       [type |-> "rare_drops",   name |-> "Fortune Hunter", target |-> 5,   reward |-> 300],
       [type |-> "combo_level",  name |-> "Combo Master",   target |-> 2,   reward |-> 80],
       [type |-> "combo_level",  name |-> "Chain Legend",   target |-> 4,   reward |-> 250],
       [type |-> "speed_mining", name |-> "Speed Demon",    target |-> 3,   reward |-> 150] >>

\* Orders of the nine templates that the shuffle may produce.
ShuffleDraws ==
    { <<1, 2, 3, 4, 5, 6, 7, 8, 9>>,
      <<9, 8, 7, 6, 5, 4, 3, 2, 1>>,
      <<5, 1, 7, 2, 9, 3, 4, 6, 8>>,
      <<4, 6, 9, 1, 2, 3, 5, 7, 8>>,
      <<2, 1, 5, 3, 4, 6, 7, 8, 9>>,
      <<7, 5, 6, 1, 2, 3, 4, 8, 9>> }

\* The id challenge_${now}_${index} is the pair of its two parts.
generateDailyChallenges(dateNow, shuffled) ==
    LET selected == SubSeq(shuffled, 1, 3)
    IN  [index \in 1..Len(selected) |->
            LET template == CHALLENGE_TEMPLATES[selected[index]]
            IN  [id |-> <<dateNow, index - 1>>,
                 type |-> template.type,
                 name |-> template.name,
                 target |-> template.target,
                 progress |-> 0,
                 reward |-> template.reward,
                 completed |-> FALSE,
                 createdAt |-> dateNow,
                 expiresAt |-> dateNow + CHALLENGE_DURATION]]

\* A refresh only after more than 24 hours.
needsRefreshStrict(state, dateNow) == dateNow - state.lastRefresh > CHALLENGE_DURATION

needsRefresh(state, dateNow) == dateNow - state.lastRefresh >= CHALLENGE_DURATION

initChallengeState(dateNow, shuffled) ==
    [challenges |-> generateDailyChallenges(dateNow, shuffled),
     lastRefresh |-> dateNow,
     completedToday |-> 0]

\* The progress is stored without the cap at the target.
updateChallengeProgressUncapped(challenges, type, amount) ==
    [i \in DOMAIN challenges |->
        LET challenge == challenges[i]
        IN  IF challenge.type = type /\ ~challenge.completed
            THEN [challenge EXCEPT !.progress = challenge.progress + amount,
                                   !.completed = challenge.progress + amount >= challenge.target]
            ELSE challenge]

updateChallengeProgress(challenges, type, amount) ==
    [i \in DOMAIN challenges |->
        LET challenge == challenges[i]
            newProgress == challenge.progress + amount
        IN  IF challenge.type = type /\ ~challenge.completed
            THEN [challenge EXCEPT !.progress = Min(newProgress, challenge.target),
                                   !.completed = newProgress >= challenge.target]
            ELSE challenge]

\* stored is the entry under the key of addr, None when there is none.
loadChallengeState(addr, stored, dateNow, shuffled) ==
    IF addr = "" THEN initChallengeState(dateNow, shuffled)
    ELSE IF stored = None THEN initChallengeState(dateNow, shuffled)
    ELSE IF needsRefresh(stored, dateNow) THEN initChallengeState(dateNow, shuffled)
    ELSE stored

ChallengeAmounts == {0, 1, 4, 100}

\* One call of loadChallengeState: the entry is absent or a state that was generated
\* at an earlier time and saved, untouched or after a progress update.
ChallengeSaveTimes == {0, 1000}
ChallengeDelays == {0, CHALLENGE_DURATION - 1, CHALLENGE_DURATION, CHALLENGE_DURATION + 1}

SavedChallengeStates ==
    {[initChallengeState(t, shuffled) EXCEPT
         !.challenges = updateChallengeProgress(@, type, amount)] :
        t \in ChallengeSaveTimes, shuffled \in ShuffleDraws,
        type \in ChallengeTypes, amount \in ChallengeAmounts}

InitChallengeLoad ==
    /\ HookInit
    /\ chainId = APECHAIN_CHAIN_ID
    /\ combo = None
    /\ challengeState = None
    /\ challengeStore \in {None} \cup SavedChallengeStates
    /\ achievementState = None
    /\ \E d \in ChallengeDelays :
          now = (IF challengeStore = None THEN 0 ELSE challengeStore.lastRefresh) + d
    /\ \E a \in Accounts \cup {""} :
          call = [fn |-> "loadChallengeState", address |-> a, returned |-> FALSE]

LoadChallengeState ==
    /\ call.fn = "loadChallengeState"
    /\ ~call.returned
    /\ \E shuffled \in ShuffleDraws :
          challengeState' = loadChallengeState(call.address, challengeStore, now, shuffled)
    /\ call' = [call EXCEPT !.returned = TRUE]
    /\ UNCHANGED <<appVars, now, combo, challengeStore, achievementState>>

SpecChallengeLoad == InitChallengeLoad /\ [][LoadChallengeState]_vars

\* Progress updates on a freshly generated set; nothing is saved, so a reload
\* generates the next set.
InitChallenges ==
    /\ AppInit
    /\ chainId = APECHAIN_CHAIN_ID
    /\ call = NoCall
    /\ combo = None
    /\ challengeStore = None
    /\ achievementState = None
    /\ \E shuffled \in ShuffleDraws : challengeState = initChallengeState(now, shuffled)

UpdateChallengeProgress ==
    /\ \E type \in ChallengeTypes, amount \in ChallengeAmounts :
          /\ challengeState' = [challengeState EXCEPT
                 !.challenges = updateChallengeProgress(@, type, amount)]
          /\ call' = [fn |-> "updateChallengeProgress", type |-> type, amount |-> amount]
    /\ UNCHANGED <<appVars, now, combo, challengeStore, achievementState>>

ReloadChallenges ==
    /\ \E a \in Accounts, shuffled \in ShuffleDraws :
          challengeState' = loadChallengeState(a, challengeStore, now, shuffled)
    /\ call' = [fn |-> "loadChallengeState"]
    /\ UNCHANGED <<appVars, now, combo, challengeStore, achievementState>>

NextChallenges == UpdateChallengeProgress \/ ReloadChallenges

SpecChallenges == InitChallenges /\ [][NextChallenges]_vars

\* The combo_level objective: the level of the combo is reported to the set through
\* updateChallengeProgress, the one function that advances a challenge. call.observed
\* is the highest level reported since the set was generated.
ComboLevels == DOMAIN COMBO_MULTIPLIERS

Max(a, b) == IF a > b THEN a ELSE b

InitComboObjective ==
    /\ AppInit
    /\ chainId = APECHAIN_CHAIN_ID
    /\ combo = None
    /\ challengeStore = None
    /\ achievementState = None
    /\ \E shuffled \in ShuffleDraws : challengeState = initChallengeState(now, shuffled)
    /\ call = [fn |-> "initChallengeState", observed |-> 0]

ReportComboLevel ==
    /\ \E level \in ComboLevels :
          /\ challengeState' = [challengeState EXCEPT
                 !.challenges = updateChallengeProgress(@, "combo_level", level)]
          /\ call' = [fn |-> "updateChallengeProgress", type |-> "combo_level",
                      amount |-> level, observed |-> Max(call.observed, level)]
    /\ UNCHANGED <<appVars, now, combo, challengeStore, achievementState>>

RefreshComboObjective ==
    /\ \E a \in Accounts, shuffled \in ShuffleDraws :
          challengeState' = loadChallengeState(a, challengeStore, now, shuffled)
    /\ call' = [fn |-> "loadChallengeState", observed |-> 0]
    /\ UNCHANGED <<appVars, now, combo, challengeStore, achievementState>>

NextComboObjective == ReportComboLevel \/ RefreshComboObjective

SpecComboObjective == InitComboObjective /\ [][NextComboObjective]_vars

(***************************************************************************)
(* minting.ts, achievements. A target is a number or a name, as in the     *)
(* source; unlockedAt is absent until the unlock.                          *)
(***************************************************************************)
ACHIEVEMENT_DEFINITIONS ==
    << [id |-> "first_mine",     requirement |-> [type |-> "mine_count",  target |-> 1],           reward |-> 5],
       [id |-> "miner_10",       requirement |-> [type |-> "mine_count",  target |-> 10],          reward |-> 25],
       [id |-> "miner_50",       requirement |-> [type |-> "mine_count",  target |-> 50],          reward |-> 100],
       [id |-> "miner_100",      requirement |-> [type |-> "mine_count",  target |-> 100],         reward |-> 250],
       [id |-> "wealth_100",     requirement |-> [type |-> "data_earned", target |-> 100],         reward |-> 10],
       [id |-> "wealth_500",     requirement |-> [type |-> "data_earned", target |-> 500],         reward |-> 50],
       [id |-> "wealth_1000",    requirement |-> [type |-> "data_earned", target |-> 1000],        reward |-> 150],
       [id |-> "wealth_5000",    requirement |-> [type |-> "data_earned", target |-> 5000],        reward |-> 500],
       [id |-> "rare_drop",      requirement |-> [type |-> "rarity_drop", target |-> "rare"],      reward |-> 20],
       [id |-> "epic_drop",      requirement |-> [type |-> "rarity_drop", target |-> "epic"],      reward |-> 50],
       [id |-> "legendary_drop", requirement |-> [type |-> "rarity_drop", target |-> "legendary"], reward |-> 100],
       [id |-> "mythic_drop",    requirement |-> [type |-> "rarity_drop", target |-> "mythic"],    reward |-> 300],
       [id |-> "combo_level_1",  requirement |-> [type |-> "combo_level", target |-> 1],           reward |-> 15],
       [id |-> "combo_level_3",  requirement |-> [type |-> "combo_level", target |-> 3],           reward |-> 50],
       [id |-> "combo_level_4",  requirement |-> [type |-> "combo_level", target |-> 4],           reward |-> 100],
       [id |-> "speed_5s",       requirement |-> [type |-> "mine_speed",  target |-> 5],           reward |-> 30],
       [id |-> "first_nft",      requirement |-> [type |-> "special",     target |-> "load_nft"],  reward |-> 10] >>

initAchievementState ==
    [achievements |-> [i \in DOMAIN ACHIEVEMENT_DEFINITIONS |->
                          [id |-> ACHIEVEMENT_DEFINITIONS[i].id,
                           requirement |-> ACHIEVEMENT_DEFINITIONS[i].requirement,
                           reward |-> ACHIEVEMENT_DEFINITIONS[i].reward,
                           unlocked |-> FALSE]],
     totalUnlocked |-> 0,
     lastUnlocked |-> None]

\* rarityOrder.indexOf(tier)
rarityIndexOf(tier) ==
    IF \E i \in DOMAIN Tiers : Tiers[i] = tier
    THEN (CHOOSE i \in DOMAIN Tiers : Tiers[i] = tier) - 1
    ELSE -1

\* The switch of checkAchievement over the requirement type.
meetsRequirement(achievement, given) ==
    LET type == achievement.requirement.type
        target == achievement.requirement.target
    IN  CASE type = "mine_count"  -> given.mineCount >= target
          [] type = "data_earned" -> given.totalDataEarned >= target
          [] type = "rarity_drop" ->
                IF given.lastRarity = "null" THEN FALSE
                ELSE rarityIndexOf(given.lastRarity) >= rarityIndexOf(target)
          [] type = "combo_level" -> given.comboLevel >= target
          [] type = "mine_speed"  -> given.mineDuration <= target
          [] type = "special"     -> IF target = "load_nft" THEN given.hasLoadedNFT ELSE FALSE
          [] OTHER -> FALSE

\* Without the early return for an achievement that is unlocked.
checkAchievementAgain(achievement, given) == meetsRequirement(achievement, given)

checkAchievement(achievement, given) ==
    IF achievement.unlocked THEN FALSE ELSE meetsRequirement(achievement, given)

\* newlyUnlocked: the achievements pushed by the map, in the order of the list.
RECURSIVE pushed(_, _, _)
pushed(achievements, given, dateNow) ==
    IF achievements = <<>> THEN <<>>
    ELSE LET achievement == Head(achievements)
             rest == pushed(Tail(achievements), given, dateNow)
         IN  IF checkAchievement(achievement, given)
             THEN <<[id |-> achievement.id, requirement |-> achievement.requirement,
                     reward |-> achievement.reward, unlocked |-> TRUE,
                     unlockedAt |-> dateNow]>> \o rest
             ELSE rest

checkAllAchievements(currentState, given, dateNow) ==
    LET newlyUnlocked == pushed(currentState.achievements, given, dateNow)
        updatedAchievements ==
            [i \in DOMAIN currentState.achievements |->
                LET achievement == currentState.achievements[i]
                IN  IF checkAchievement(achievement, given)
                    THEN [id |-> achievement.id, requirement |-> achievement.requirement,
                          reward |-> achievement.reward, unlocked |-> TRUE,
                          unlockedAt |-> dateNow]
                    ELSE achievement]
    IN  [state |-> [achievements |-> updatedAchievements,
                    totalUnlocked |-> currentState.totalUnlocked + Len(newlyUnlocked),
                    lastUnlocked |-> IF newlyUnlocked # <<>>
                                     THEN newlyUnlocked[Len(newlyUnlocked)]
                                     ELSE currentState.lastUnlocked],
         newlyUnlocked |-> newlyUnlocked]

\* Statistics a caller may pass: none yet, a first mine with an NFT loaded, and later
\* totals with other last rarities, combo levels and durations.
AchievementStats ==
    { [mineCount |-> 0,   totalDataEarned |-> 0,    lastRarity |-> "null",     comboLevel |-> 0, mineDuration |-> 60, hasLoadedNFT |-> FALSE],
      [mineCount |-> 1,   totalDataEarned |-> 12,   lastRarity |-> "common",   comboLevel |-> 0, mineDuration |-> 30, hasLoadedNFT |-> TRUE],
      [mineCount |-> 2,   totalDataEarned |-> 20,   lastRarity |-> "uncommon", comboLevel |-> 1, mineDuration |-> 6,  hasLoadedNFT |-> FALSE],
      [mineCount |-> 10,  totalDataEarned |-> 100,  lastRarity |-> "rare",     comboLevel |-> 1, mineDuration |-> 5,  hasLoadedNFT |-> TRUE],
      [mineCount |-> 11,  totalDataEarned |-> 130,  lastRarity |-> "mythic",   comboLevel |-> 3, mineDuration |-> 60, hasLoadedNFT |-> TRUE],
      [mineCount |-> 100, totalDataEarned |-> 5000, lastRarity |-> "epic",     comboLevel |-> 4, mineDuration |-> 45, hasLoadedNFT |-> TRUE] }

MaxAchievementTime == 2000

InitAchievements ==
    /\ AppInit
    /\ chainId = APECHAIN_CHAIN_ID
    /\ call = NoCall
    /\ combo = None
    /\ challengeState = None
    /\ challengeStore = None
    /\ achievementState = initAchievementState

CheckAllAchievements ==
    /\ \E given \in AchievementStats :
          LET result == checkAllAchievements(achievementState, given, now)
          IN  /\ achievementState' = result.state
              /\ call' = [fn |-> "checkAllAchievements", stats |-> given,
                          newlyUnlocked |-> result.newlyUnlocked]
    /\ UNCHANGED <<appVars, now, combo, challengeState, challengeStore>>

AchievementClock ==
    /\ now + 1000 <= MaxAchievementTime
    /\ now' = now + 1000
    /\ UNCHANGED <<appVars, libVars>>

NextAchievements == CheckAllAchievements \/ AchievementClock

SpecAchievements == InitAchievements /\ [][NextAchievements]_vars

(***************************************************************************)
(* Properties of the session lifecycle and of the claim (Spec).            *)
(***************************************************************************)
Sessions == 1..MaxSessions

\* The pending reward record stored for an address.
RecordOf(addr) == IF addr = "" THEN None ELSE pendingStore[toLowerCase(addr)]

\* A step that ends the only claim attempt in flight without touching the reward, the
\* statistics or storage, and starts no other attempt.
AttemptEndsWithoutEffect ==
    /\ Len(claims) = 1
    /\ claims' = <<>>
    /\ ~isClaiming'
    /\ UNCHANGED <<isMining, isReadyToClaim, pendingReward, pendingRarity, stats,
                   statsStore, pendingStore, credited, rewardSession>>

\* C1: a session's reward is credited at most once.  No stored record, no reward offered
\* for claim and no claim attempt in flight belongs to a session that was credited, and
\* right after a Settle the record is absent and claim() is not accepted.
C1_NoDoubleCredit ==
    /\ \A s \in Sessions : credited[s] <= 1
    /\ \A k \in StorageKeys :
          pendingStore[k] # None => credited[pendingStore[k].sid] = 0
    /\ \A i \in DOMAIN claims : claims[i].sid # 0 => credited[claims[i].sid] = 0
    /\ (isReadyToClaim /\ rewardSession # 0) => credited[rewardSession] = 0
    /\ lastStep = "Successfully claimed" =>
          /\ ~ClaimAccepted
          /\ \A k \in StorageKeys : pendingStore[k] = None

C1_Witness ==
    /\ lastStep = "Successfully claimed"
    /\ \E s \in Sessions : credited[s] = 1 /\ stats.minecart > 0
    /\ ~isReadyToClaim
    /\ \A k \in StorageKeys : pendingStore[k] = None

\* C2: start() takes effect (a session begins) only when the identity is connected,
\* equipment is loaded and the status is Idle; in Mining, ReadyToClaim or Claiming it
\* changes nothing.
C2_StartOnlyWhenIdle ==
    [][sessionCount' # sessionCount =>
          isConnected /\ loadedCartridge /\ Status = "Idle"]_vars

\* A session was started while the reward of an earlier one was still offered for claim.
C2_StartedWhileReady ==
    /\ lastStep = "Mining started"
    /\ isMining
    /\ RecordOf(address) # None
    /\ RecordOf(address).sid # rewardSession

\* C3: the step in which the completion timer fires ends Mining, offers the session for
\* claim, sets progress to 100, cancels both tickers and stores a record whose amount is
\* the session's finalReward (> 0); whenever a session is offered for claim, the record
\* of the connected address is in storage with a positive amount.
C3_CompletionWritesRecord ==
    /\ [](isReadyToClaim =>
             /\ RecordOf(address) # None
             /\ RecordOf(address).amount > 0)
    /\ [][lastStep' = "Mining complete" =>
             /\ isMining /\ miningTimeoutRef # None
             /\ ~isMining' /\ isReadyToClaim'
             /\ miningProgress' = ProgressFull
             /\ ~hashRateIntervalRef' /\ progressIntervalRef' = None
             /\ miningTimeoutRef' = None
             /\ miningTimeoutRef.finalReward > 0
             /\ pendingStore'[toLowerCase(miningTimeoutRef.address)] =
                   [amount |-> miningTimeoutRef.finalReward, timestamp |-> now,
                    sid |-> miningTimeoutRef.sid]]_vars

C3_Witness ==
    /\ lastStep = "Mining complete"
    /\ Status = "ReadyToClaim"
    /\ miningProgress = ProgressFull
    /\ RecordOf(address) # None
    /\ RecordOf(address).amount = pendingReward
    /\ pendingReward > 0

\* C4: a cancel that runs in Mining or ReadyToClaim leaves the session Idle with no
\* timer, no ticker, pending reward 0 and no record stored for the identity that held
\* the session; nothing of a cancelled session is later stored, offered or credited.
C4_CancelDiscardsSession ==
    /\ [](\A s \in Sessions : cancelled[s] = "cancelled" =>
             /\ credited[s] = 0
             /\ \A k \in StorageKeys : pendingStore[k] # None => pendingStore[k].sid # s
             /\ rewardSession # s
             /\ miningTimeoutRef # None => miningTimeoutRef.sid # s)
    /\ [][(lastStep' = "Mining cancelled" /\ ~isClaiming) =>
             /\ isMining \/ isReadyToClaim
             /\ Status' = "Idle"
             /\ pendingReward' = 0
             /\ miningTimeoutRef' = None
             /\ ~hashRateIntervalRef' /\ progressIntervalRef' = None
             /\ pendingStore'[toLowerCase(address)] = None]_vars

\* A cancel ran outside a claim and a record is still stored.
C4_RecordSurvivesCancel ==
    /\ lastStep = "Mining cancelled"
    /\ ~isClaiming
    /\ \E k \in StorageKeys : pendingStore[k] # None

\* C5: at every moment at most one claim attempt is in progress, it is in progress only
\* while the claiming flag is set (which makes claim() return at once), and at most one
\* submitted transaction is outstanding.
C5_SingleClaimInFlight ==
    /\ Len(claims) <= 1
    /\ claims # <<>> => isClaiming
    /\ Cardinality({t \in 1..MaxTx : txStatus[t] # "none"}) <= 1
    /\ Cardinality({i \in DOMAIN claims : claims[i].submitCalls > 0}) <= 1
    /\ \A i \in DOMAIN claims : claims[i].submitCalls <= 1

C5_Witness ==
    /\ Len(claims) = 1
    /\ claims[1].pc = "poll"
    /\ txStatus[claims[1].txHash] = "pending"
    /\ isClaiming /\ isReadyToClaim
    /\ ~ClaimAccepted

C7_InsufficientBalanceAborts ==
    /\ [](\A i \in DOMAIN claims :
             (claims[i].gasCalls > 0 \/ claims[i].submitCalls > 0) =>
                 claims[i].balanceWei >= CLAIM_FEE_WEI + GAS_BUFFER_WEI)
    /\ [][lastStep' = "Insufficient balance. Need at least 0.0101 APE" =>
             /\ AttemptEndsWithoutEffect
             /\ claims[1].pc = "getBalance"
             /\ claims[1].gasCalls = 0
             /\ claims[1].submitCalls = 0
             /\ claims[1].txHash = 0]_vars

C7_Witness ==
    /\ lastStep = "Insufficient balance. Need at least 0.0101 APE"
    /\ Status = "ReadyToClaim"
    /\ RecordOf(address) # None
    /\ RecordOf(address).amount = pendingReward
    /\ stats.minecart = 0

\* C8: an attempt never polls more than 60 times; the 60th poll without a receipt ends
\* it with the timeout error, credits nothing and leaves the record, the pending reward
\* and the session as they were, so that claim() is accepted again.
C8_PollTimeoutKeepsReward ==
    /\ [](\A i \in DOMAIN claims : claims[i].attempts < maxAttempts)
    /\ [][lastStep' = "Transaction timeout - check your wallet for status" =>
             /\ AttemptEndsWithoutEffect
             /\ claims[1].pc = "poll"
             /\ claims[1].attempts = maxAttempts - 1
             /\ ClaimAccepted' = isReadyToClaim]_vars

C8_Witness ==
    /\ lastStep = "Transaction timeout - check your wallet for status"
    /\ Status = "ReadyToClaim"
    /\ ClaimAccepted
    /\ RecordOf(address) # None
    /\ RecordOf(address).amount = pendingReward
    /\ pendingReward > 0
    /\ \A s \in Sessions : credited[s] = 0

\* C9: a submission that the user rejects or the node fails, and a receipt with the
\* failure status, end the attempt without a credit: statistics, pending reward and
\* record stay as they were and claim() is accepted again; while the receipt of the
\* attempt's transaction shows the failure status no step credits anything.
C9_FailedSubmissionKeepsReward ==
    /\ [][(lastStep' \in {"Transaction cancelled by user", "RPC failure",
                          "Transaction failed - reverted"}
           /\ claims # <<>> /\ claims[1].pc \in {"sendTransaction", "poll"}) =>
             /\ AttemptEndsWithoutEffect
             /\ ClaimAccepted' = isReadyToClaim]_vars
    /\ [][(\E i \in DOMAIN claims :
              claims[i].pc = "poll" /\ txStatus[claims[i].txHash] = "0x0") =>
             /\ credited' = credited
             /\ statsStore' = statsStore]_vars

C9_Witness ==
    /\ lastStep = "Transaction failed - reverted"
    /\ Status = "ReadyToClaim"
    /\ ClaimAccepted
    /\ RecordOf(address) # None
    /\ RecordOf(address).amount = pendingReward
    /\ stats.minecart = 0

\* C10: statistics are credited only by an attempt whose own transaction has a receipt
\* with the success status; the credit adds the pending reward to the balance and ten
\* times the pending reward to the season points.
C10_CreditOnlyOnSuccess ==
    [][credited' # credited =>
          /\ Len(claims) = 1
          /\ claims[1].pc = "poll"
          /\ txStatus[claims[1].txHash] = "0x1"
          /\ stats'.minecart = claims[1].stats.minecart + claims[1].pendingReward
          /\ stats'.seasonPoints = claims[1].stats.seasonPoints
                                     + SeasonPointsPerData * claims[1].pendingReward]_vars

\* C11: the mining flag and the ready-to-claim flag are never both set, and no session
\* is Mining while a claim is in flight.
C11_ExactlyOneStatus ==
    /\ ~(isMining /\ isReadyToClaim)
    /\ ~(isMining /\ (isClaiming \/ claims # <<>>))

\* A session is Mining while a claim attempt is in flight.
C11_MiningWhileClaiming ==
    /\ isMining
    /\ isClaiming
    /\ claims # <<>>
    /\ miningTimeoutRef # None

\* C12: the reward of a session is computed once, by start(): the timer, the stored
\* record and the reward offered for claim carry the finalReward computed at the start of
\* their session, and a Settle credits the finalReward computed at the start of the
\* session it settles (the one whose reward the attempt captured or, when it captured
\* none, the one whose record it clears).
C12_RewardFixedAtStart ==
    /\ [](/\ miningTimeoutRef # None =>
                miningTimeoutRef.finalReward = finalRewardOf[miningTimeoutRef.sid]
          /\ \A k \in StorageKeys :
                pendingStore[k] # None =>
                    pendingStore[k].amount = finalRewardOf[pendingStore[k].sid])
    /\ [][lastStep' = "Successfully claimed" =>
             /\ Len(claims) = 1
             /\ stats'.minecart = claims[1].stats.minecart + claims[1].pendingReward
             /\ claims[1].sid # 0 =>
                   claims[1].pendingReward = finalRewardOf[claims[1].sid]
             /\ (claims[1].sid = 0 /\ RecordOf(claims[1].address) # None) =>
                   claims[1].pendingReward =
                       finalRewardOf[RecordOf(claims[1].address).sid]]_vars

\* A session whose finalReward is positive is offered for claim with pending reward 0.
C12_OfferedWithoutReward ==
    /\ isReadyToClaim
    /\ pendingReward = 0
    /\ RecordOf(address) # None
    /\ finalRewardOf[RecordOf(address).sid] > 0

C15_FirstTierByCumulativeRate ==
    /\ RARITY_CONFIGS.common.dropRate + RARITY_CONFIGS.uncommon.dropRate
         + RARITY_CONFIGS.rare.dropRate + RARITY_CONFIGS.epic.dropRate
         + RARITY_CONFIGS.legendary.dropRate + RARITY_CONFIGS.mythic.dropRate = RandomScale
    /\ [](call.fn = "calculateRarity" /\ call.returned =>
            LET d == call.random
            IN  /\ ~call.fallback
                /\ call.result = "common"    <=> d <= 5000
                /\ call.result = "uncommon"  <=> (5000 < d /\ d <= 5000 + 3000)
                /\ call.result = "rare"      <=> (8000 < d /\ d <= 8000 + 1500)
                /\ call.result = "epic"      <=> (9500 < d /\ d <= 9500 + 400)
                /\ call.result = "legendary" <=> (9900 < d /\ d <= 9900 + 90)
                /\ call.result = "mythic"    <=> (9990 < d /\ d <= 9990 + 10))

\* A draw in the last tenth of a percent of the range returns mythic.
C15_Witness ==
    /\ call.fn = "calculateRarity"
    /\ call.returned
    /\ call.random = RandomScale - 1
    /\ call.result = "mythic"
    /\ ~call.fallback

\* C16: calculateReward(base, tier) is floor(base * multiplier) for every base >= 0, 0
\* included, with multipliers 1.0, 1.5, 2.0, 3.0, 5.0, 10.0 for common .. mythic; base 10
\* and epic give 30.
C16_RewardIsFloorOfProduct ==
    call.fn = "calculateReward" /\ call.returned =>
        LET tenths == CASE call.rarity = "common"    -> 10
                        [] call.rarity = "uncommon"  -> 15
                        [] call.rarity = "rare"      -> 20
                        [] call.rarity = "epic"      -> 30
                        [] call.rarity = "legendary" -> 50
                        [] call.rarity = "mythic"    -> 100
        IN  /\ call.result * 10 <= call.baseReward * tenths
            /\ call.baseReward * tenths < (call.result + 1) * 10
            /\ call.baseReward = 0 => call.result = 0
            /\ (call.baseReward = 10 /\ call.rarity = "epic") => call.result = 30

\* An odd base at 1.5 is rounded down: 3 and uncommon give 4.
C16_Witness ==
    /\ call.fn = "calculateReward"
    /\ call.returned
    /\ call.baseReward = 3
    /\ call.rarity = "uncommon"
    /\ call.result = 4

C19_ReadRegeneratesAfterADay ==
    call.fn = "loadChallengeState" /\ call.returned =>
        LET stored == IF call.address = "" THEN None ELSE challengeStore
            due == stored = None \/ now - stored.lastRefresh >= 24 * 60 * 60 * 1000
            set == challengeState.challenges
        IN  /\ due =>
                  /\ challengeState.lastRefresh = now
                  /\ Len(set) = 3
                  /\ \A i \in 1..Len(set) : \E k \in DOMAIN CHALLENGE_TEMPLATES :
                        /\ set[i].type = CHALLENGE_TEMPLATES[k].type
                        /\ set[i].name = CHALLENGE_TEMPLATES[k].name
                        /\ set[i].target = CHALLENGE_TEMPLATES[k].target
                        /\ set[i].reward = CHALLENGE_TEMPLATES[k].reward
                  /\ \A i, j \in 1..Len(set) : i # j => set[i].name # set[j].name
                  /\ \A i \in 1..Len(set) :
                        /\ set[i].progress = 0
                        /\ ~set[i].completed
                        /\ set[i].expiresAt = set[i].createdAt + 24 * 60 * 60 * 1000
            /\ ~due => challengeState = stored

\* A stored set with progress, read exactly 24 h after its refresh, is replaced.
C19_Witness ==
    /\ call.fn = "loadChallengeState"
    /\ call.returned
    /\ call.address # ""
    /\ challengeStore # None
    /\ \E i \in 1..3 : challengeStore.challenges[i].progress > 0
    /\ now - challengeStore.lastRefresh = CHALLENGE_DURATION
    /\ challengeState.lastRefresh = now
    /\ \A i \in 1..3 : challengeState.challenges[i].progress = 0

\* A stored set with progress, read one millisecond earlier, is returned as stored.
C19_WitnessStored ==
    /\ call.fn = "loadChallengeState"
    /\ call.returned
    /\ call.address # ""
    /\ challengeStore # None
    /\ \E i \in 1..3 : challengeStore.challenges[i].progress > 0
    /\ now - challengeStore.lastRefresh = CHALLENGE_DURATION - 1
    /\ challengeState = challengeStore

\* C20: after any sequence of updateChallengeProgress calls with amounts >= 0 on a fresh
\* set every challenge has 0 <= progress <= target and is completed exactly when progress
\* = target; a call changes only the challenges of its type that are not completed, and
\* only their progress and completed flag, so a completed challenge stays as it is until
\* the set is regenerated.
C20_ProgressClampedAndFrozen ==
    /\ [](\A i \in DOMAIN challengeState.challenges :
            LET c == challengeState.challenges[i]
            IN  /\ 0 <= c.progress
                /\ c.progress <= c.target
                /\ c.completed <=> c.progress = c.target)
    /\ [][call'.fn = "updateChallengeProgress" =>
            \A i \in DOMAIN challengeState.challenges :
                LET c == challengeState.challenges[i]
                    d == challengeState'.challenges[i]
                IN  /\ DOMAIN challengeState'.challenges = DOMAIN challengeState.challenges
                    /\ (c.type # call'.type \/ c.completed) => d = c
                    /\ d = [c EXCEPT !.progress = d.progress, !.completed = d.completed]
                    /\ d.progress >= c.progress]_vars

\* A call with an amount past the target completes one challenge at its target and
\* leaves a challenge of another type with partial progress.
C20_Witness ==
    /\ call.fn = "updateChallengeProgress"
    /\ call.amount = 4
    /\ \E i, j \in DOMAIN challengeState.challenges :
          /\ challengeState.challenges[i].type = call.type
          /\ challengeState.challenges[i].completed
          /\ challengeState.challenges[i].progress = challengeState.challenges[i].target
          /\ challengeState.challenges[i].target = 3
          /\ challengeState.challenges[j].type # call.type
          /\ challengeState.challenges[j].progress > 0
          /\ ~challengeState.challenges[j].completed

\* C21: the progress of a combo_level challenge is the highest combo level reported
\* since the set was generated, capped at the target: a level that is not above one
\* already reported leaves the progress as it is, and the challenge is completed only
\* when a level at or above the target was reported.
C21_ComboObjectiveIsMaxLevel ==
    \A i \in DOMAIN challengeState.challenges :
        LET c == challengeState.challenges[i]
        IN  c.type = "combo_level" =>
                /\ c.progress = Min(call.observed, c.target)
                /\ c.completed => call.observed >= c.target

\* Chain Legend (target 4) is completed although no level above 2 was reported.
C21_CompletedBelowTarget ==
    /\ call.fn = "updateChallengeProgress"
    /\ call.observed = 2
    /\ \E i \in DOMAIN challengeState.challenges :
          /\ challengeState.challenges[i].type = "combo_level"
          /\ challengeState.challenges[i].target = 4
          /\ challengeState.challenges[i].completed

\* C22: unlocking is one-shot and idempotent. A call of checkAllAchievements (a step that
\* leaves the clock where it is) leaves every
\* unlocked achievement as it is, and its batch holds, once each, exactly the
\* achievements that were locked before the call and are unlocked after it, so no
\* achievement enters a batch twice or becomes locked again; a second call with the same
\* stats right after a call returns an empty batch and the same state.
C22_UnlockOnceAndIdempotent ==
    /\ [][\A i \in DOMAIN achievementState.achievements :
            LET a == achievementState.achievements[i]
                b == achievementState'.achievements[i]
            IN  /\ a.unlocked => b = a
                /\ b.id = a.id
                /\ (call'.fn = "checkAllAchievements" /\ now' = now) =>
                      (\E k \in DOMAIN call'.newlyUnlocked : call'.newlyUnlocked[k].id = a.id)
                          <=> (~a.unlocked /\ b.unlocked)]_vars
    /\ [][(call'.fn = "checkAllAchievements" /\ now' = now) =>
            /\ \A k \in DOMAIN call'.newlyUnlocked :
                  \E i \in DOMAIN achievementState.achievements :
                      achievementState'.achievements[i] = call'.newlyUnlocked[k]
            /\ \A j, k \in DOMAIN call'.newlyUnlocked :
                  j # k => call'.newlyUnlocked[j].id # call'.newlyUnlocked[k].id]_vars
    /\ [](call.fn = "checkAllAchievements" =>
            LET again == checkAllAchievements(achievementState, call.stats, now)
            IN  again.newlyUnlocked = <<>> /\ again.state = achievementState)

\* A later call unlocks more while an achievement of an earlier call keeps its time.
C22_Witness ==
    /\ call.fn = "checkAllAchievements"
    /\ call.newlyUnlocked # <<>>
    /\ \E i, j \in DOMAIN achievementState.achievements :
          /\ achievementState.achievements[i].unlocked
          /\ achievementState.achievements[i].unlockedAt < now
          /\ ~meetsRequirement(achievementState.achievements[i], call.stats)
          /\ achievementState.achievements[j].unlocked
          /\ achievementState.achievements[j].unlockedAt = now
    /\ achievementState.totalUnlocked > Len(call.newlyUnlocked)

\* C23: every confirmed Settle, in the step that credits the stats and clears the record,
\* advances the combo state of the identity by one updateCombo step and hands the
\* settled claim (final reward, new combo level) to the challenge and achievement
\* tracker.
C23_SettleAdvancesComboAndTracker ==
    [][lastStep' = "Successfully claimed" =>
         /\ combo' = updateCombo(IF combo = None THEN initComboState ELSE combo, now)
         /\ call' = [fn |-> "claimSettled", finalReward |-> claims[1].pendingReward,
                     comboLevel |-> combo'.level]]_vars

\* A Settle has credited the stats; there is no combo state and no call of the tracker.
C23_SettledWithoutCombo ==
    /\ lastStep = "Successfully claimed"
    /\ stats.minecart > 0
    /\ pendingStore[toLowerCase(address)] = None
    /\ combo = None
    /\ call = NoCall
    /\ challengeState = None
    /\ achievementState = None

\* C24: the reward of a mining session is between 1 and 13 $DATA for every duration in
\* [5,60], every random bonus and every rarity tier.
C24_RewardBetween1And13 ==
    call.fn = "startMining" /\ call.returned =>
        /\ 1 <= call.finalReward
        /\ call.finalReward <= 13

\* The longest session with the highest bonus and a mythic drop is worth 150.
C24_RewardOf150 ==
    /\ call.fn = "startMining"
    /\ call.returned
    /\ call.duration = MaxDuration
    /\ call.bonus = BonusRange - 1
    /\ call.rarity = "mythic"
    /\ call.baseReward = 15
    /\ call.finalReward = 150

\* C25: a failing storage operation is caught and does not abort or block the step it
\* is part of. While an operation fails, the completion of a session still ends Mining,
\* sets ReadyToClaim with the reward held in memory and stops both tickers; a Settle
\* still credits the stats in memory, ends the attempt and leaves nothing to claim; a
\* connect still completes. A failed write or remove leaves the storage as it was.
C25_StorageFailureDoesNotBlock ==
    /\ [][(failing # {} /\ miningTimeoutRef # None /\ now >= miningTimeoutRef.due
             /\ miningTimeoutRef' = None /\ isReadyToClaim') =>
            /\ ~isMining'
            /\ pendingReward' = pendingReward
            /\ miningProgress' = ProgressFull
            /\ ~hashRateIntervalRef'
            /\ progressIntervalRef' = None
            /\ "setItem" \in failing => pendingStore' = pendingStore]_vars
    /\ [][(failing # {} /\ credited' # credited) =>
            /\ stats'.minecart = claims[1].stats.minecart + claims[1].pendingReward
            /\ stats'.seasonPoints = claims[1].stats.seasonPoints + 10 * claims[1].pendingReward
            /\ ~isReadyToClaim'
            /\ ~isClaiming'
            /\ pendingReward' = 0
            /\ Len(claims') = Len(claims) - 1
            /\ lastStep' = "Successfully claimed"
            /\ "setItem" \in failing => statsStore' = statsStore
            /\ "removeItem" \in failing => pendingStore' = pendingStore]_vars
    /\ [][(failing # {} /\ ~isConnected /\ isConnected') =>
            /\ "getItem" \in failing =>
                  /\ stats' = stats
                  /\ pendingReward' = pendingReward
                  /\ isReadyToClaim' = isReadyToClaim
            /\ "removeItem" \in failing => pendingStore' = pendingStore]_vars

\* With every storage operation failing from the start, a session was completed, claimed
\* and settled: the stats are credited in memory and nothing was ever stored.
C25_Witness ==
    /\ failing = {"setItem", "getItem", "removeItem"}
    /\ lastStep = "Successfully claimed"
    /\ stats.minecart > 0
    /\ ~isReadyToClaim
    /\ ~isMining
    /\ ~isClaiming
    /\ \A k \in StorageKeys : statsStore[k] = None /\ pendingStore[k] = None

\* C26: a cancel invoked while a claim is in flight leaves the session neither Mining nor
\* offered for claim, with no reward in memory, and the reward of the session cancelled
\* that way is never credited to the stats afterwards, whatever the transaction does.
C26_CancelDuringClaimNeverCredits ==
    /\ [][(lastStep' = "Mining cancelled" /\ isClaiming) =>
             /\ ~isMining' /\ ~isReadyToClaim'
             /\ pendingReward' = 0]_vars
    /\ [](\A s \in Sessions : cancelled[s] = "cancelled while claiming" => credited[s] = 0)

\* The attempt that was in flight when the session was cancelled has credited the reward
\* of that session.
C26_CreditedAfterCancel ==
    /\ lastStep = "Successfully claimed"
    /\ \E s \in Sessions :
          /\ cancelled[s] = "cancelled while claiming"
          /\ credited[s] = 1
          /\ stats.minecart = finalRewardOf[s]

\* C27: every session that enters Mining eventually leaves it, and it leaves it in one
\* of two ways only: a cancel (stop, disconnect, ejection), or the completion timer,
\* which fires no earlier than duration seconds after the start and offers the session
\* for claim; a session cancelled while Mining is never offered for claim afterwards.
C27_MiningEndsByTimerOrCancel ==
    /\ isMining ~> ~isMining
    /\ [][(isMining /\ ~isMining') =>
             \/ lastStep' = "Mining cancelled"
             \/ /\ lastStep' = "Mining complete"
                /\ now >= startTimeRef + miningDuration * 1000
                /\ isReadyToClaim'
                /\ pendingStore'[toLowerCase(miningTimeoutRef.address)].sid = miningTimeoutRef.sid]_vars
    /\ [](\A s \in Sessions : cancelled[s] = "cancelled" =>
             /\ ~(isReadyToClaim /\ rewardSession = s)
             /\ \A k \in StorageKeys : pendingStore[k] # None => pendingStore[k].sid # s
             /\ miningTimeoutRef # None => miningTimeoutRef.sid # s)

\* C27, with the page reload: a session leaves Mining by a cancel, by the completion
\* timer, or because the page is reloaded (on request or after a change of chain), which
\* drops the session without offering it for claim.
C27_MiningEndsByTimerCancelOrReload ==
    /\ isMining ~> ~isMining
    /\ [][(isMining /\ ~isMining') =>
             \/ lastStep' = "Mining cancelled"
             \/ /\ lastStep' = "Mining complete"
                /\ now >= startTimeRef + miningDuration * 1000
                /\ isReadyToClaim'
                /\ pendingStore'[toLowerCase(miningTimeoutRef.address)].sid = miningTimeoutRef.sid
             \/ /\ lastStep' = "-"
                /\ ~isReadyToClaim' /\ ~isConnected' /\ ~loadedCartridge'
                /\ claims' = <<>>
                /\ miningTimeoutRef' = None
                /\ pendingStore' = pendingStore]_vars
    /\ [](\A s \in Sessions : cancelled[s] = "cancelled" =>
             /\ ~(isReadyToClaim /\ rewardSession = s)
             /\ \A k \in StorageKeys : pendingStore[k] # None => pendingStore[k].sid # s
             /\ miningTimeoutRef # None => miningTimeoutRef.sid # s)

\* The completion timer of the second session has fired at the instant it was set for.
C27_Witness ==
    /\ lastStep = "Mining complete"
    /\ rewardSession = 2
    /\ isReadyToClaim /\ ~isMining
    /\ now = startTimeRef + miningDuration * 1000
    /\ cancelled[1] = "cancelled"

\* C28: every attempt of claimReward ends when each call it awaits returns or fails.  The
\* polling loop counts at most 60 polls; the claiming flag is set exactly while an attempt
\* runs and is cleared by the step that ends it, whichever way it ends; after that step
\* a reward still offered can be claimed again and a session can be cancelled.
C28_ClaimTerminates ==
    /\ isClaiming ~> ~isClaiming
    /\ [](/\ isClaiming <=> claims # <<>>
          /\ \A i \in DOMAIN claims : claims[i].attempts < maxAttempts)
    /\ [][(ClaimStep /\ claims' = <<>>) =>
             /\ ~isClaiming'
             /\ isReadyToClaim' => ClaimAccepted'
             /\ (claims[1].pc = "poll" /\ txStatus[claims[1].txHash] = "pending") =>
                   /\ NextRound(claims[1].attempts) = maxAttempts
                   /\ lastStep' \in {"-", "Transaction timeout - check your wallet for status"}]_vars

\* The polling loop gave up after 60 polls; the flag is cleared and the reward is still
\* offered, so that claimReward is accepted again.
C28_Witness ==
    /\ lastStep = "Transaction timeout - check your wallet for status"
    /\ ~isClaiming
    /\ claims = <<>>
    /\ isReadyToClaim
    /\ ClaimAccepted

\* C29: whenever the status is ReadyToClaim, the pending reward in memory is positive and
\* equals the amount of the record stored for the connected address, so that a claim made
\* now and a claim made after a reload credit the same amount.
C29_PendingRewardMatchesRecord ==
    Status = "ReadyToClaim" =>
        /\ pendingReward > 0
        /\ RecordOf(address) # None
        /\ RecordOf(address).amount = pendingReward

\* A completed session is offered for claim with no reward in memory while the record of
\* the connected address holds the reward computed at its start.
C29_ReadyWithZeroReward ==
    /\ Status = "ReadyToClaim"
    /\ lastStep = "Mining complete"
    /\ pendingReward = 0
    /\ RecordOf(address) # None
    /\ RecordOf(address).amount = finalRewardOf[RecordOf(address).sid]
    /\ RecordOf(address).amount > 0

\* C30: when the address changes from A to B while connected, the balance and the season
\* points shown are those stored for B (zero if none) and the reward offered is the one
\* of B's record (none if none); a reward is credited at most once, to the identity under
\* whose address its record was stored; and no record of a credited reward stays in
\* storage.
C30_NoCarryOverBetweenIdentities ==
    /\ [][(lastStep' = "Account changed" /\ isConnected) =>
             LET savedStats == statsStore[toLowerCase(address')]
                 record == pendingStore'[toLowerCase(address')]
             IN  /\ stats'.minecart = IF savedStats # None THEN savedStats.minecart ELSE 0
                 /\ stats'.seasonPoints =
                        IF savedStats # None THEN savedStats.seasonPoints ELSE 0
                 /\ pendingReward' = IF record # None THEN record.amount ELSE 0
                 /\ isReadyToClaim' <=> record # None]_vars
    /\ [][(credited' # credited /\ claims[1].sid # 0) =>
             \A k \in StorageKeys :
                 (pendingStore[k] # None /\ pendingStore[k].sid = claims[1].sid) =>
                     k = toLowerCase(claims[1].address)]_vars
    /\ [](\A s \in Sessions :
             /\ credited[s] <= 1
             /\ credited[s] = 1 =>
                   \A k \in StorageKeys : pendingStore[k] # None => pendingStore[k].sid # s)

\* The one session that was mined has been credited twice: to the account the wallet
\* switched to, and then to the account that mined it, on top of the balance that the
\* page still showed from the other account.
C30_CreditedToBothIdentities ==
    /\ sessionCount = 1
    /\ credited[1] = 2
    /\ statsStore["0xa1"] # None /\ statsStore["0xa1"].minecart = 2 * finalRewardOf[1]
    /\ statsStore["0xb2"] # None /\ statsStore["0xb2"].minecart = finalRewardOf[1]

====
